---- MODULE Spec2Model ----
(***************************************************************************)
(* vscode-drupal-check: the language server's validation pipeline.         *)
(*                                                                         *)
(*   server   src/unnamed/part_000  (validateSingle, validateMany, events) *)
(*   checker  src/server/src/checker.ts   (spawnSync build)                *)
(*            src/unnamed/part_001        (cross-spawn-promise build)      *)
(*                                                                         *)
(* Node's event loop is modelled as it schedules the code: an event        *)
(* handler or an I/O completion is a macrotask and runs only when the      *)
(* microtask queue is empty; the continuation of an await on an already    *)
(* settled promise is a microtask.                                         *)
(***************************************************************************)
EXTENDS Integers, Sequences, FiniteSets, TLC

\* ------------------------------------------------------------------ bounds
\* validateSingle calls over one run of the server
MaxCycles == 3
\* validateMany calls over one run of the server
MaxBatches == 1
\* characters of a document text whose lines are mapped, and the highest
\* line number a message names
MaxTextLen == 3
\* messages of one file record
MaxMessages == 2

\* --------------------------------------------------------------- JS values
Undefined == [t |-> "undefined"]
JNull == [t |-> "null"]
JNum(n) == [t |-> "num", n |-> n]
JStr(s) == [t |-> "str", s |-> s]
JArr(a) == [t |-> "arr", a |-> a]
JObj(o) == [t |-> "obj", o |-> o]
\* a Diagnostic[] value, as opposed to Undefined
JList(l) == [t |-> "list", l |-> l]

\* JS truthiness of a parsed value (the `!` of processResults)
Truthy(v) ==
    CASE v.t = "undefined" -> FALSE
      [] v.t = "null" -> FALSE
      [] v.t = "num" -> v.n # 0
      [] v.t = "str" -> v.s # ""
      [] OTHER -> TRUE

\* v[key] for a value that is neither null nor undefined
Get(v, key) ==
    IF v.t = "obj" /\ key \in DOMAIN v.o THEN v.o[key] ELSE Undefined

\* v == '' under JS loose equality
LooseEqEmptyString(v) ==
    CASE v.t = "str" -> v.s = ""
      [] v.t = "num" -> v.n = 0
      [] v.t = "arr" -> Len(v.a) = 0
      [] OTHER -> FALSE

\* -------------------------------------------------------------- JSON.parse
\* The checker's stdout is a sequence of JSON tokens; a token of kind "bad"
\* is text no JSON token starts with.
P(c) == [k |-> c]
S(s) == [k |-> "str", s |-> s]
N(n) == [k |-> "num", n |-> n]
NullTok == [k |-> "null"]
BadTok == [k |-> "bad"]

Tok(toks, i) == IF i >= 1 /\ i <= Len(toks) THEN toks[i] ELSE [k |-> "eof"]

SyntaxError == [ok |-> FALSE]

RECURSIVE ParseValue(_, _)
RECURSIVE ParseMembers(_, _, _)
RECURSIVE ParseElements(_, _, _)

\* members of an object after "{" or ",": string ":" value, then "," or "}"
ParseMembers(toks, i, acc) ==
    IF Tok(toks, i).k # "str" \/ Tok(toks, i + 1).k # ":"
    THEN SyntaxError
    ELSE LET r == ParseValue(toks, i + 2) IN
         IF ~r.ok THEN SyntaxError
         ELSE LET acc2 == (Tok(toks, i).s :> r.val) @@ acc IN
              CASE Tok(toks, r.next).k = "," -> ParseMembers(toks, r.next + 1, acc2)
                [] Tok(toks, r.next).k = "}" ->
                     [ok |-> TRUE, val |-> JObj(acc2), next |-> r.next + 1]
                [] OTHER -> SyntaxError

\* elements of an array after "[" or ",": value, then "," or "]"
ParseElements(toks, i, acc) ==
    LET r == ParseValue(toks, i) IN
    IF ~r.ok THEN SyntaxError
    ELSE CASE Tok(toks, r.next).k = "," ->
                ParseElements(toks, r.next + 1, Append(acc, r.val))
           [] Tok(toks, r.next).k = "]" ->
                [ok |-> TRUE, val |-> JArr(Append(acc, r.val)), next |-> r.next + 1]
           [] OTHER -> SyntaxError

ParseValue(toks, i) ==
    LET t == Tok(toks, i) IN
    CASE t.k = "str" -> [ok |-> TRUE, val |-> JStr(t.s), next |-> i + 1]
      [] t.k = "num" -> [ok |-> TRUE, val |-> JNum(t.n), next |-> i + 1]
      [] t.k = "null" -> [ok |-> TRUE, val |-> JNull, next |-> i + 1]
      [] t.k = "{" ->
           IF Tok(toks, i + 1).k = "}"
           THEN [ok |-> TRUE, val |-> JObj(<<>>), next |-> i + 2]
           ELSE ParseMembers(toks, i + 1, <<>>)
      [] t.k = "[" ->
           IF Tok(toks, i + 1).k = "]"
           THEN [ok |-> TRUE, val |-> JArr(<<>>), next |-> i + 2]
           ELSE ParseElements(toks, i + 1, <<>>)
      [] OTHER -> SyntaxError

\* JSON.parse(text): one value, and nothing after it
JSONParse(toks) ==
    LET r == ParseValue(toks, 1) IN
    IF r.ok /\ r.next = Len(toks) + 1
    THEN [ok |-> TRUE, val |-> r.val]
    ELSE SyntaxError

\* ------------------------------------------------------------ the checker
Thrown(e) == [ok |-> FALSE, err |-> e]
Returned(v) == [ok |-> TRUE, val |-> v]

\* DrupalCheck.parseData
parseDataLenient(text) ==
    LET r == JSONParse(text) IN
    IF r.ok THEN Returned(r.val) ELSE Returned(JObj("files" :> JObj(<<>>)))
parseData(text) ==
    LET r == JSONParse(text) IN
    IF r.ok THEN Returned(r.val) ELSE Thrown("InvalidJsonStringError")

\* CharCode.isWhiteSpace
isWhiteSpace(ch) == ch \in {" ", "\t"}

\* String.prototype.split("\n") on a text given as its characters
RECURSIVE split(_)
split(text) ==
    IF \A i \in 1..Len(text) : text[i] # "\n"
    THEN <<text>>
    ELSE LET i == CHOOSE j \in 1..Len(text) :
                      text[j] = "\n" /\ \A k \in 1..(j - 1) : text[k] # "\n"
         IN <<SubSeq(text, 1, i - 1)>> \o split(SubSeq(text, i + 1, Len(text)))

DiagnosticSeverityError == 1
DiagnosticSeverityInformation == 3

\* Diagnostic.create(range, message, severity, null, 'drupalchecker')
Diagnostic(range, message, severity) ==
    [range |-> range, message |-> message, severity |-> severity,
     source |-> "drupalchecker"]

\* the for loop of createDiagnostic: startCharacter after the scan from i
RECURSIVE scanStart(_, _, _)
scanStart(lineString, i, startCharacter) ==
    IF i < Len(lineString)
    THEN IF ~isWhiteSpace(lineString[i + 1])
         THEN i
         ELSE scanStart(lineString, i + 1, i)
    ELSE startCharacter

\* DrupalCheck.createDiagnostic(document, entry); text is document.getText()
createDiagnosticOneBased(text, entry) ==
    IF entry.t \in {"null", "undefined"} \/ LooseEqEmptyString(Get(entry, "message"))
    THEN Returned(Diagnostic(<<0, 0, 0, 0>>, JStr(""), DiagnosticSeverityInformation))
    ELSE LET lines == split(text)
             lineField == Get(entry, "line")
         IN
         IF lineField.t # "num" \/ lineField.n - 1 < 0 \/ lineField.n - 1 >= Len(lines)
         THEN Thrown("TypeError")
         ELSE LET lineString == lines[lineField.n]
                  startCharacter ==
                      IF Len(lineString) > 0 /\ isWhiteSpace(lineString[1])
                      THEN scanStart(lineString, 1, 0)
                      ELSE 0
              IN Returned(Diagnostic(<<lineField.n, startCharacter,
                                       lineField.n, Len(lineString)>>,
                                     Get(entry, "message"),
                                     DiagnosticSeverityError))
createDiagnostic(text, entry) ==
    IF entry.t \in {"null", "undefined"} \/ LooseEqEmptyString(Get(entry, "message"))
    THEN Returned(Diagnostic(<<0, 0, 0, 0>>, JStr(""), DiagnosticSeverityInformation))
    ELSE LET lines == split(text)
             lineField == Get(entry, "line")
         IN
         \* entry.line - 1 is NaN unless line is a number; lines[NaN] and
         \* lines[out of range] are undefined, and .length of undefined throws
         IF lineField.t # "num" \/ lineField.n - 1 < 0 \/ lineField.n - 1 >= Len(lines)
         THEN Thrown("TypeError")
         ELSE LET line == lineField.n - 1
                  lineString == lines[line + 1]
                  endCharacter == Len(lineString)
                  startCharacter ==
                      IF Len(lineString) > 0 /\ isWhiteSpace(lineString[1])
                      THEN scanStart(lineString, 1, 0)
                      ELSE 0
              IN Returned(Diagnostic(<<line, startCharacter, line, endCharacter>>,
                                     Get(entry, "message"),
                                     DiagnosticSeverityError))

\* messages.map(message => diagnostics.push(createDiagnostic(document, message)))
RECURSIVE mapMessages(_, _, _)
RECURSIVE mapMessagesUnshift(_, _, _)
mapMessagesUnshift(text, messages, diagnostics) ==
    IF messages = <<>>
    THEN Returned(JList(diagnostics))
    ELSE LET d == createDiagnostic(text, Head(messages)) IN
         IF ~d.ok THEN d
         ELSE mapMessagesUnshift(text, Tail(messages), <<d.val>> \o diagnostics)
mapMessages(text, messages, diagnostics) ==
    IF messages = <<>>
    THEN Returned(JList(diagnostics))
    ELSE LET d == createDiagnostic(text, Head(messages)) IN
         IF ~d.ok THEN d
         ELSE mapMessages(text, Tail(messages), Append(diagnostics, d.val))

\* DrupalCheck.processResults(filePath, document, results); fileRealPath is
\* extfs.realpathSync(filePath), filePath being defined for a file: URI
processResults(fileRealPath, text, results) ==
    LET parsed == parseData(results) IN
    IF ~parsed.ok THEN parsed
    ELSE LET data == parsed.val IN
         IF data.t = "null" THEN Thrown("TypeError")
         ELSE LET files == Get(data, "files") IN
              IF files.t \in {"null", "undefined"} THEN Thrown("TypeError")
              ELSE IF ~Truthy(Get(files, fileRealPath)) THEN Returned(JList(<<>>))
              ELSE LET messages == Get(Get(files, fileRealPath), "messages") IN
                   IF messages.t # "arr" THEN Thrown("TypeError")
                   ELSE mapMessages(text, messages.a, <<>>)

\* DrupalCheck.create(executablePath): null.startsWith throws in the spawnSync
\* build and is rethrown as the create-checker error; the cross-spawn-promise
\* build only stores the path
NullPath == "<null>"
create(build, executablePath) ==
    IF build = "spawnSync" /\ executablePath = NullPath
    THEN Thrown("CreateCheckerError")
    ELSE Returned(executablePath)

\* ----------------------------------------------------- the checker process
\* What one run of the external process does is not the program's choice:
\* its exit status (-1 for none: killed at the timeout), and what it wrote.
\* A process that could not be started (ENOENT) wrote nothing and is handled
\* as the fourth outcome is.
Report(line) ==
    <<P("{"), S("files"), P(":"), P("{"),
        S("/a.php"), P(":"), P("{"), S("messages"), P(":"), P("["),
          P("{"), S("line"), P(":"), N(line), P(","),
                  S("message"), P(":"), S("Deprecated call"), P("}"),
        P("]"), P("}"), P(","),
        S("/real/b.php"), P(":"), P("{"), S("messages"), P(":"), P("["),
        P("]"), P("}"),
      P("}"), P("}")>>

NoStdout == <<>>
Outcome(status, timedOut, stdout, stderr) ==
    [status |-> status, timedOut |-> timedOut, stdout |-> stdout, stderr |-> stderr]

Outcomes ==
    << Outcome(0, FALSE, Report(1), ""),
       Outcome(1, FALSE, Report(1), ""),
       Outcome(1, FALSE, NoStdout, "Fatal error"),
       Outcome(1, FALSE, NoStdout, ""),
       Outcome(-1, TRUE, Report(1), ""),
       Outcome(1, FALSE, <<BadTok>>, "Fatal error"),
       Outcome(0, FALSE, <<P("{"), P("}")>>, ""),
       Outcome(1, FALSE, Report(3), "") >>

\* the result of check(): what its promise settles to, and the stderr text
\* it wrote to the console ("" for none)
Settled(r, logged) == [ok |-> r.ok, r |-> r, logged |-> logged]

\* checker.ts, the try/catch around spawnSync: every error thrown in the try
\* block is an Error without stdout or stderr, so the catch does nothing and
\* check() returns undefined
checkSpawnSync(fileRealPath, text, o) ==
    IF o.stdout = NoStdout
    THEN Settled(Returned(Undefined), "")
    ELSE LET r == processResults(fileRealPath, text, o.stdout) IN
         IF r.ok THEN Settled(r, "") ELSE Settled(Returned(Undefined), "")

\* part_001, spawn(...).then(...).catch(...): the promise of
\* cross-spawn-promise resolves with stdout on exit status 0 and rejects with
\* an error carrying stdout and stderr otherwise
checkSpawnPromise(fileRealPath, text, o) ==
    IF ~o.timedOut /\ o.status = 0
    THEN LET r == processResults(fileRealPath, text, o.stdout) IN
         IF r.ok THEN Settled(r, "") ELSE Settled(Returned(Undefined), "")
    ELSE IF o.stdout # NoStdout
    THEN Settled(processResults(fileRealPath, text, o.stdout), "")
    ELSE IF o.stderr # ""
    THEN Settled(Returned(Undefined), o.stderr)
    ELSE Settled(Returned(Undefined), "")

runCheck(build, fileRealPath, text, o) ==
    IF build = "spawnSync"
    THEN checkSpawnSync(fileRealPath, text, o)
    ELSE checkSpawnPromise(fileRealPath, text, o)

\* ------------------------------------------------------------- the server
URIs == {"file:///a.php", "file:///b.php"}

\* Files.uriToFilePath
uriToFilePath(uri) == IF uri = "file:///a.php" THEN "/a.php" ELSE "/b.php"

\* extfs.realpathSync: /b.php is a symbolic link
realpathSync(filePath) == IF filePath = "/b.php" THEN "/real/b.php" ELSE filePath

\* document contents: "" and " b\nc"
Texts == << <<>>, <<" ", "b", "\n", "c">> >>

\* CheckerSettings, the fields validateSingle and create read
defaultSettings == [enable |-> TRUE, executablePath |-> "/usr/local/bin/drupal-check"]
SettingsValues ==
    { defaultSettings,
      [enable |-> FALSE, executablePath |-> "/usr/local/bin/drupal-check"],
      [enable |-> TRUE, executablePath |-> NullPath] }

VARIABLES
    build,                       \* which checker module the server imports
    hasConfigurationCapability,
    globalSettings,
    promises,                    \* the workspace/configuration requests made
    documentSettings,            \* uri -> index in promises, 0 for no entry
    docs,                        \* the TextDocument objects ever created
    open,                        \* uri -> index in docs, 0 when not open
    validating,                  \* the keys of the validating map
    cycles,                      \* the validateSingle calls, in call order
    batches,                     \* the validateMany calls
    microq,                      \* the microtask queue
    sent,                        \* what was sent to the client, in order
    input,                       \* ParseSpec: the arguments of processResults
    output                       \* ParseSpec: what was computed from them

server == <<build, hasConfigurationCapability, globalSettings, promises,
            documentSettings, docs, open, validating, cycles, batches, microq,
            sent>>
vars == <<server, input, output>>

NoResult == Settled(Returned(Undefined), "")
NoInput == [kind |-> "none", stdout |-> <<>>, text |-> 0]
NoOutput == [stage |-> "none"]

ServerStarted ==
    /\ build \in {"spawnSync", "spawnPromise"}
    /\ hasConfigurationCapability \in BOOLEAN
    /\ globalSettings = defaultSettings
    /\ promises = <<>>
    /\ documentSettings = [u \in URIs |-> 0]
    /\ validating = {}
    /\ cycles = <<>>
    /\ batches = <<>>
    /\ microq = <<>>
    /\ sent = <<>>

Init ==
    /\ ServerStarted
    /\ docs = <<>>
    /\ open = [u \in URIs |-> 0]
    /\ input = NoInput
    /\ output = NoOutput

\* the part of the state a validateSingle call changes when it starts
Heap(ps, ds, cs, q) == [promises |-> ps, documentSettings |-> ds, cycles |-> cs, microq |-> q]

\* validateSingle(document) up to its first await: getDocumentSettings looks
\* the URI up in the cache or asks the client, and the call awaits the promise
validateSingleStart(h, uri, doc, batch) ==
    LET cached == h.documentSettings[uri]
        fresh == hasConfigurationCapability /\ cached = 0
        ps == IF fresh
              THEN Append(h.promises, [st |-> "pending", val |-> defaultSettings])
              ELSE h.promises
        sp == IF ~hasConfigurationCapability THEN 0
              ELSE IF fresh THEN Len(ps) ELSE cached
        c == Len(h.cycles) + 1
        cycle == [uri |-> uri, doc |-> doc, pc |-> "awaitSettings", sp |-> sp,
                  settings |-> globalSettings, resolved |-> FALSE,
                  diagnostics |-> JList(<<>>), result |-> NoResult,
                  batch |-> batch, fileText |-> 0, text |-> 0, outcome |-> 0,
                  spawned |-> FALSE, surfaced |-> FALSE]
        settled == sp = 0 \/ ps[sp].st # "pending"
    IN Heap(ps,
            IF fresh THEN [h.documentSettings EXCEPT ![uri] = sp] ELSE h.documentSettings,
            Append(h.cycles, cycle),
            IF settled THEN Append(h.microq, [k |-> "cycle", id |-> c]) ELSE h.microq)

Here == Heap(promises, documentSettings, cycles, microq)

Install(h) ==
    /\ promises' = h.promises
    /\ documentSettings' = h.documentSettings
    /\ cycles' = h.cycles
    /\ microq' = h.microq

\* documents.all(): the open documents, in the order they were opened
RECURSIVE allFrom(_)
allFrom(d) ==
    IF d > Len(docs) THEN <<>>
    ELSE (IF open[docs[d].uri] = d THEN <<d>> ELSE <<>>) \o allFrom(d + 1)
all == allFrom(1)

\* validateMany(documents) up to its first await
validateManyWithoutAwait(h, documents) ==
    LET b == Len(batches) + 1
        first == validateSingleStart(h, docs[documents[1]].uri, documents[1], b)
    IN
    IF documents = <<>>
    THEN [h |-> h, batch |-> [documents |-> documents, i |-> 1, st |-> "done"]]
    ELSE [h |-> IF Len(documents) > 1
                THEN validateSingleStart(first, docs[documents[2]].uri, documents[2], b)
                ELSE first,
          batch |-> [documents |-> documents, i |-> 1, st |-> "running"]]
validateManyStart(h, documents) ==
    LET b == Len(batches) + 1 IN
    IF documents = <<>>
    THEN [h |-> h, batch |-> [documents |-> documents, i |-> 1, st |-> "done"]]
    ELSE [h |-> validateSingleStart(h, docs[documents[1]].uri, documents[1], b),
          batch |-> [documents |-> documents, i |-> 1, st |-> "running"]]

\* the validateMany call of an event handler, with what the handler found:
\* how many configuration requests and validateSingle calls had been made
Triggered(batch, trigger) ==
    [documents |-> batch.documents, i |-> batch.i, st |-> batch.st,
     trigger |-> trigger, promisesBefore |-> Len(promises),
     cyclesBefore |-> Len(cycles)]

\* a macrotask runs only when no microtask is queued
Idle == microq = <<>>

\* documentSettings.delete(uri)
evictAll(ds, uri) == [u \in URIs |-> 0]
evictNothing(ds, uri) == ds
evict(ds, uri) == [ds EXCEPT ![uri] = 0]

\* ------------------------------------------------------------------ events

\* the client opens a document: TextDocuments fires onDidOpen and then
\* onDidChangeContent, each of which calls validateSingle
DidOpen(u, t) ==
    /\ Idle /\ open[u] = 0
    /\ Len(cycles) + 2 <= MaxCycles
    /\ docs' = Append(docs, [uri |-> u, text |-> t])
    /\ open' = [open EXCEPT ![u] = Len(docs) + 1]
    /\ LET d == Len(docs) + 1 IN
       Install(validateSingleStart(validateSingleStart(Here, u, d, 0), u, d, 0))
    /\ UNCHANGED <<build, hasConfigurationCapability, globalSettings, validating,
                   batches, sent, input, output>>

\* documents.onDidChangeContent: the document object is updated in place
DidChangeContent(u, t) ==
    /\ Idle /\ open[u] # 0
    /\ Len(cycles) + 1 <= MaxCycles
    /\ docs' = [docs EXCEPT ![open[u]].text = t]
    /\ Install(validateSingleStart(Here, u, open[u], 0))
    /\ UNCHANGED <<build, hasConfigurationCapability, globalSettings, open,
                   validating, batches, sent, input, output>>

\* documents.onDidSave
DidSave(u) ==
    /\ Idle /\ open[u] # 0
    /\ Len(cycles) + 1 <= MaxCycles
    /\ Install(validateSingleStart(Here, u, open[u], 0))
    /\ UNCHANGED <<build, hasConfigurationCapability, globalSettings, docs, open,
                   validating, batches, sent, input, output>>

\* documents.onDidClose
DidClose(u) ==
    /\ Idle /\ open[u] # 0
    /\ open' = [open EXCEPT ![u] = 0]
    /\ documentSettings' = evict(documentSettings, u)
    /\ UNCHANGED <<build, hasConfigurationCapability, globalSettings, promises,
                   docs, validating, cycles, batches, microq, sent, input, output>>

\* connection.onDidChangeConfiguration; g is change.settings.drupalCheck ||
\* defaultSettings
DidChangeConfiguration(g) ==
    /\ Idle /\ Len(batches) < MaxBatches
    /\ Len(cycles) + Len(all) <= MaxCycles
    /\ hasConfigurationCapability => g = defaultSettings
    /\ globalSettings' = IF hasConfigurationCapability THEN globalSettings ELSE g
    /\ LET cleared == IF hasConfigurationCapability
                      THEN [u \in URIs |-> 0]
                      ELSE documentSettings
           r == validateManyStart(Heap(promises, cleared, cycles, microq), all)
           \* getDocumentSettings of the first call reads the new global settings
           h == IF hasConfigurationCapability \/ all = <<>>
                THEN r.h
                ELSE [r.h EXCEPT !.cycles[Len(cycles) + 1].settings = g]
       IN /\ Install(h)
          /\ batches' = Append(batches, Triggered(r.batch, "configuration"))
    /\ UNCHANGED <<build, hasConfigurationCapability, docs, open, validating,
                   sent, input, output>>

\* connection.onDidChangeWatchedFiles
DidChangeWatchedFiles ==
    /\ Idle /\ Len(batches) < MaxBatches
    /\ Len(cycles) + Len(all) <= MaxCycles
    /\ LET r == validateManyStart(Here, all) IN
       /\ Install(r.h)
       /\ batches' = Append(batches, Triggered(r.batch, "watchedFiles"))
    /\ UNCHANGED <<build, hasConfigurationCapability, globalSettings, docs, open,
                   validating, sent, input, output>>

\* the client answers a workspace/configuration request, or the request fails;
\* the calls awaiting the promise resume in the order they awaited it
RECURSIVE awaiting(_, _)
awaiting(p, c) ==
    IF c > Len(cycles) THEN <<>>
    ELSE (IF cycles[c].pc = "awaitSettings" /\ cycles[c].sp = p
          THEN <<[k |-> "cycle", id |-> c]>> ELSE <<>>) \o awaiting(p, c + 1)

ConfigurationReply(p, ok, v) ==
    /\ Idle
    /\ p \in 1..Len(promises) /\ promises[p].st = "pending"
    /\ ok \/ v = defaultSettings
    /\ promises' = [promises EXCEPT ![p] =
                      [st |-> IF ok THEN "resolved" ELSE "rejected", val |-> v]]
    /\ microq' = awaiting(p, 1)
    /\ UNCHANGED <<build, hasConfigurationCapability, globalSettings,
                   documentSettings, docs, open, validating, cycles, batches,
                   sent, input, output>>

\* ------------------------------------------------------ validateSingle
IsHead(kind, id) == microq # <<>> /\ Head(microq) = [k |-> kind, id |-> id]

Notification(m, c) ==
    [m |-> m, uri |-> cycles[c].uri, cycle |-> c, diagnostics |-> Undefined]
\* connection.sendDiagnostics({ uri, diagnostics })
sendDiagnostics(c, diagnostics) ==
    [m |-> "publishDiagnostics", uri |-> cycles[c].uri, cycle |-> c,
     diagnostics |-> diagnostics]

\* the queue after call c has settled: validateMany awaits it
AfterSettled(c) ==
    IF cycles[c].batch # 0
    THEN Append(Tail(microq), [k |-> "batch", id |-> cycles[c].batch])
    ELSE Tail(microq)

\* the finally block: sendEndValidationNotification, then sendDiagnostics;
\* marked and log are the validating map and the messages sent before it
FinallyPublishesFirst(c, diagnostics, marked, log) ==
    /\ validating' = marked \ {cycles[c].uri}
    /\ sent' = log \o <<sendDiagnostics(c, diagnostics),
                        Notification("didEndValidate", c)>>
FinallyWithoutPublish(c, diagnostics, marked, log) ==
    /\ validating' = marked \ {cycles[c].uri}
    /\ sent' = Append(log, Notification("didEndValidate", c))
Finally(c, diagnostics, marked, log) ==
    /\ validating' = marked \ {cycles[c].uri}
    /\ sent' = log \o <<Notification("didEndValidate", c),
                        sendDiagnostics(c, diagnostics)>>

\* `await getDocumentSettings(document.uri)` throws when the request failed
awaitNeverThrows(sp) == FALSE
awaitThrows(sp) == sp # 0 /\ promises[sp].st = "rejected"

\* the settings promise has settled: lines 160-165 and 173-177
ResumeSettings(c) ==
    /\ IsHead("cycle", c) /\ cycles[c].pc = "awaitSettings"
    /\ LET sp == cycles[c].sp
           uri == cycles[c].uri
           settings == IF sp = 0 THEN cycles[c].settings ELSE promises[sp].val
           made == create(build, settings.executablePath)
           text == docs[cycles[c].doc].text
       IN
       IF awaitThrows(sp)
       THEN \* the await throws: validateSingle rejects
            /\ cycles' = [cycles EXCEPT ![c].pc = "rejected"]
            /\ microq' = AfterSettled(c)
            /\ UNCHANGED <<validating, sent, documentSettings>>
       ELSE IF ~settings.enable
       THEN /\ cycles' = [cycles EXCEPT ![c].pc = "done", ![c].settings = settings,
                                        ![c].resolved = TRUE]
            /\ sent' = Append(sent, sendDiagnostics(c, JList(<<>>)))
            /\ documentSettings' = evict(documentSettings, uri)
            /\ microq' = AfterSettled(c)
            /\ UNCHANGED validating
       ELSE IF ~made.ok
       THEN \* sendStartValidationNotification, create throws, catch, finally
            /\ cycles' = [cycles EXCEPT ![c].pc = "rejected", ![c].settings = settings,
                                        ![c].resolved = TRUE, ![c].fileText = text,
                                        ![c].surfaced = TRUE]
            /\ Finally(c, cycles[c].diagnostics, validating \cup {uri},
                       Append(sent, Notification("didStartValidate", c)))
            /\ microq' = AfterSettled(c)
            /\ UNCHANGED documentSettings
       ELSE /\ cycles' = [cycles EXCEPT ![c].pc = "awaitCreate", ![c].settings = settings,
                                        ![c].resolved = TRUE, ![c].fileText = text]
            /\ validating' = validating \cup {uri}
            /\ sent' = Append(sent, Notification("didStartValidate", c))
            /\ microq' = Append(Tail(microq), [k |-> "cycle", id |-> c])
            /\ UNCHANGED documentSettings
    /\ UNCHANGED <<build, hasConfigurationCapability, globalSettings, promises,
                   docs, open, batches, input, output>>

\* check(): if (fileText === '') return []
spawnsOnEmptyText(fileText) == FALSE
returnsEmptyOnEmptyText(fileText) == fileText = <<>>

\* drupalcheck.check(document, settings) is called: with empty text it returns
\* [] at once; the spawnSync build runs the process to its end inside the call
ResumeCreate(c, o) ==
    /\ IsHead("cycle", c) /\ cycles[c].pc = "awaitCreate"
    /\ LET t == docs[cycles[c].doc].text
           fileRealPath == realpathSync(uriToFilePath(cycles[c].uri))
       IN
       IF returnsEmptyOnEmptyText(Texts[t])
       THEN /\ o = 1
            /\ cycles' = [cycles EXCEPT ![c].pc = "awaitCheck", ![c].fileText = t,
                                        ![c].result = Settled(Returned(JList(<<>>)), "")]
            /\ microq' = Append(Tail(microq), [k |-> "cycle", id |-> c])
       ELSE IF build = "spawnSync"
       THEN /\ cycles' = [cycles EXCEPT ![c].pc = "awaitCheck", ![c].fileText = t,
                                        ![c].text = t, ![c].spawned = TRUE,
                                        ![c].outcome = o,
                                        ![c].result = runCheck(build, fileRealPath,
                                                               Texts[t], Outcomes[o])]
            /\ microq' = Append(Tail(microq), [k |-> "cycle", id |-> c])
       ELSE IF cycles[c].settings.executablePath = NullPath
       THEN \* spawn(null, ...) throws inside the promise, and .catch drops it
            /\ o = 1
            /\ cycles' = [cycles EXCEPT ![c].pc = "awaitCheck", ![c].fileText = t]
            /\ microq' = Append(Tail(microq), [k |-> "cycle", id |-> c])
       ELSE /\ o = 1
            /\ cycles' = [cycles EXCEPT ![c].pc = "awaitProcess", ![c].fileText = t,
                                        ![c].spawned = TRUE]
            /\ microq' = Tail(microq)
    /\ UNCHANGED <<build, hasConfigurationCapability, globalSettings, promises,
                   documentSettings, docs, open, validating, batches, sent,
                   input, output>>

\* the cross-spawn-promise build: the process ends and the then/catch
\* callbacks of check() run, reading the document as it is now
ProcessExit(c, o) ==
    /\ Idle
    /\ c \in 1..Len(cycles) /\ cycles[c].pc = "awaitProcess"
    /\ LET t == docs[cycles[c].doc].text IN
       cycles' = [cycles EXCEPT ![c].pc = "awaitCheck", ![c].text = t,
                                ![c].outcome = o,
                                ![c].result =
                                    runCheck(build,
                                             realpathSync(uriToFilePath(cycles[c].uri)),
                                             Texts[t], Outcomes[o])]
    /\ microq' = <<[k |-> "cycle", id |-> c]>>
    /\ UNCHANGED <<build, hasConfigurationCapability, globalSettings, promises,
                   documentSettings, docs, open, validating, batches, sent,
                   input, output>>

\* the promise of check() has settled: lines 166-172
ResumeCheck(c) ==
    /\ IsHead("cycle", c) /\ cycles[c].pc = "awaitCheck"
    /\ LET res == cycles[c].result IN
       IF res.ok
       THEN /\ cycles' = [cycles EXCEPT ![c].pc = "done", ![c].diagnostics = res.r.val]
            /\ Finally(c, res.r.val, validating, sent)
       ELSE \* catch: throw new Error(getExceptionMessage(error, document))
            /\ cycles' = [cycles EXCEPT ![c].pc = "rejected", ![c].surfaced = TRUE]
            /\ Finally(c, cycles[c].diagnostics, validating, sent)
    /\ microq' = AfterSettled(c)
    /\ UNCHANGED <<build, hasConfigurationCapability, globalSettings, promises,
                   documentSettings, docs, open, batches, input, output>>

\* validateMany resumes after `await validateSingle(documents[i])`: a rejected
\* call ends the loop, a fulfilled one moves it to the next document
ResumeMany(b) ==
    /\ IsHead("batch", b)
    /\ LET batch == batches[b]
           cur == CHOOSE c \in 1..Len(cycles) :
                      /\ cycles[c].batch = b
                      /\ \A c2 \in 1..Len(cycles) : cycles[c2].batch = b => c2 <= c
           q == Heap(promises, documentSettings, cycles, Tail(microq))
       IN
       IF cycles[cur].pc = "rejected"
       THEN /\ batches' = [batches EXCEPT ![b].st = "rejected"]
            /\ Install(q)
       ELSE IF batch.i < Len(batch.documents)
       THEN /\ batches' = [batches EXCEPT ![b].i = batch.i + 1]
            /\ Install(validateSingleStart(q, docs[batch.documents[batch.i + 1]].uri,
                                           batch.documents[batch.i + 1], b))
       ELSE /\ batches' = [batches EXCEPT ![b].st = "done"]
            /\ Install(q)
    /\ UNCHANGED <<build, hasConfigurationCapability, globalSettings, docs, open,
                   validating, sent, input, output>>

Next ==
    \/ \E u \in URIs, t \in 1..Len(Texts) : DidOpen(u, t)
    \/ \E u \in URIs, t \in 1..Len(Texts) : DidChangeContent(u, t)
    \/ \E u \in URIs : DidSave(u)
    \/ \E u \in URIs : DidClose(u)
    \/ \E g \in SettingsValues : DidChangeConfiguration(g)
    \/ DidChangeWatchedFiles
    \/ \E p \in 1..Len(promises), ok \in BOOLEAN, v \in SettingsValues :
           ConfigurationReply(p, ok, v)
    \/ \E c \in 1..Len(cycles) : ResumeSettings(c)
    \/ \E c \in 1..Len(cycles), o \in 1..Len(Outcomes) : ResumeCreate(c, o)
    \/ \E c \in 1..Len(cycles), o \in 1..Len(Outcomes) : ProcessExit(c, o)
    \/ \E c \in 1..Len(cycles) : ResumeCheck(c)
    \/ \E b \in 1..Len(batches) : ResumeMany(b)

\* the server from its start
Spec == Init /\ [][Next]_vars

\* the server with both documents open and no validation in flight, as it is
\* once the validations of the opening events have settled (the record of
\* those earlier calls and messages is not kept)
InitOpen ==
    /\ ServerStarted
    /\ \E t1 \in 1..Len(Texts), t2 \in 1..Len(Texts) :
           docs = <<[uri |-> "file:///a.php", text |-> t1],
                    [uri |-> "file:///b.php", text |-> t2]>>
    /\ open = [u \in URIs |-> IF u = "file:///a.php" THEN 1 ELSE 2]
    /\ input = NoInput
    /\ output = NoOutput

\* from there, the triggers of validateMany and the closing of a document
NextMany ==
    \/ \E u \in URIs : DidClose(u)
    \/ \E g \in SettingsValues : DidChangeConfiguration(g)
    \/ DidChangeWatchedFiles
    \/ \E p \in 1..Len(promises), ok \in BOOLEAN, v \in SettingsValues :
           ConfigurationReply(p, ok, v)
    \/ \E c \in 1..Len(cycles) : ResumeSettings(c)
    \/ \E c \in 1..Len(cycles), o \in 1..Len(Outcomes) : ResumeCreate(c, o)
    \/ \E c \in 1..Len(cycles), o \in 1..Len(Outcomes) : ProcessExit(c, o)
    \/ \E c \in 1..Len(cycles) : ResumeCheck(c)
    \/ \E b \in 1..Len(batches) : ResumeMany(b)

SpecMany == InitOpen /\ [][NextMany]_vars

\* the server with both documents open, under the events of single documents
\* and the validateSingle calls they start; a run of the checker either
\* writes a report and exits 0 or fails without output
DocumentOutcomes == {1, 3}
NextDocuments ==
    \/ \E u \in URIs, t \in 1..Len(Texts) : DidOpen(u, t)
    \/ \E u \in URIs, t \in 1..Len(Texts) : DidChangeContent(u, t)
    \/ \E u \in URIs : DidSave(u)
    \/ \E u \in URIs : DidClose(u)
    \/ \E p \in 1..Len(promises), ok \in BOOLEAN, v \in SettingsValues :
           ConfigurationReply(p, ok, v)
    \/ \E c \in 1..Len(cycles) : ResumeSettings(c)
    \/ \E c \in 1..Len(cycles), o \in DocumentOutcomes : ResumeCreate(c, o)
    \/ \E c \in 1..Len(cycles), o \in DocumentOutcomes : ProcessExit(c, o)
    \/ \E c \in 1..Len(cycles) : ResumeCheck(c)

SpecDocuments == InitOpen /\ [][NextDocuments]_vars

\* ------------------------------------------------- the parser on its own
\* processResults and parseData applied to stdout texts of known kind:
\*   prefix    a proper prefix of a report (output cut short)
\*   bad       a report with one token replaced by text that is not JSON
\*   dropped   a report with one token missing
\*   report    a report of the expected shape
\*   mismatch  well-formed JSON of another shape
Input(kind, stdout, text) == [kind |-> kind, stdout |-> stdout, text |-> text]

FileRecord(record) ==
    <<P("{"), S("files"), P(":"), P("{"), S("/a.php"), P(":")>> \o record
        \o <<P("}"), P("}")>>
Messages(entries) ==
    FileRecord(<<P("{"), S("messages"), P(":"), P("[")>> \o entries \o <<P("]"), P("}")>>)

Mismatches ==
    << <<P("{"), P("}")>>,
       <<NullTok>>,
       <<P("{"), S("files"), P(":"), N(5), P("}")>>,
       FileRecord(<<P("{"), P("}")>>),
       FileRecord(<<P("{"), S("messages"), P(":"), S("none"), P("}")>>),
       Messages(<<P("{"), S("message"), P(":"), S("Deprecated call"), P("}")>>),
       Messages(<<P("{"), S("line"), P(":"), N(1), P("}")>>) >>

Reports ==
    << Report(1), Report(2), Report(3),
       <<P("{"), S("files"), P(":"), P("{"), P("}"), P("}")>>,
       Messages(<<>>) >>

ReportLen == Len(Report(1))

ParseInputs(text) ==
    [i \in 1..ReportLen |-> Input("prefix", SubSeq(Report(1), 1, i - 1), text)]
    \o [i \in 1..ReportLen |->
          Input("bad", [Report(1) EXCEPT ![i] = BadTok], text)]
    \o [i \in 1..ReportLen |->
          Input("dropped", SubSeq(Report(1), 1, i - 1)
                           \o SubSeq(Report(1), i + 1, ReportLen), text)]
    \o [i \in 1..Len(Reports) |-> Input("report", Reports[i], text)]
    \o [i \in 1..Len(Mismatches) |-> Input("mismatch", Mismatches[i], text)]

ParseInit ==
    /\ ServerStarted
    /\ build = "spawnSync" /\ ~hasConfigurationCapability
    /\ docs = <<>>
    /\ open = [u \in URIs |-> 0]
    /\ \E t \in 1..Len(Texts) : \E i \in 1..Len(ParseInputs(t)) :
           input = ParseInputs(t)[i]
    /\ output = NoOutput

ApplyParseData ==
    /\ input.kind # "none" /\ output.stage = "none"
    /\ output' = [stage |-> "parseData", r |-> parseData(input.stdout)]
    /\ UNCHANGED <<server, input>>

ApplyProcessResults ==
    /\ input.kind # "none" /\ output.stage = "none"
    /\ output' = [stage |-> "processResults",
                  r |-> processResults("/a.php", Texts[input.text], input.stdout)]
    /\ UNCHANGED <<server, input>>

ParseNext == ApplyParseData \/ ApplyProcessResults

ParseSpec == ParseInit /\ [][ParseNext]_vars

\* ------------------------------------------------- the mapper on its own
\* createDiagnostic applied to one message, and check() applied to the output
\* of a run, for a file record of known messages:
\*   - every text of at most MaxTextLen characters, with at most one message
\*   - the text " b\nc" with up to MaxMessages messages
\* A message names a line in 1..MaxTextLen; its text may be the empty string.
Chars == {" ", "\t", "b", "\n"}
LineTexts == UNION {[1..n -> Chars] : n \in 0..MaxTextLen}
MessageTexts == {"", "Deprecated call", "Unsafe usage"}
Entries == [line : 1..MaxTextLen, message : MessageTexts]
EntryLists == UNION {[1..n -> Entries] : n \in 0..MaxMessages}

\* the JSON text of the messages, as the tool writes them
RECURSIVE entryTokens(_)
entryTokens(entries) ==
    IF entries = <<>> THEN <<>>
    ELSE <<P("{"), S("line"), P(":"), N(Head(entries).line), P(","),
           S("message"), P(":"), S(Head(entries).message), P("}")>>
         \o (IF Tail(entries) = <<>> THEN <<>> ELSE <<P(",")>>)
         \o entryTokens(Tail(entries))

MapInput(entries, text) ==
    [kind |-> "messages", stdout |-> Messages(entryTokens(entries)),
     text |-> text, entries |-> entries]

MapInit ==
    /\ ServerStarted
    /\ ~hasConfigurationCapability
    /\ docs = <<>>
    /\ open = [u \in URIs |-> 0]
    /\ \E text \in LineTexts \cup {Texts[2]}, entries \in EntryLists :
           /\ Len(entries) <= 1 \/ text = Texts[2]
           /\ input = MapInput(entries, text)
    /\ output = NoOutput

\* the k-th message of the parsed report is mapped
ApplyCreateDiagnostic(k) ==
    /\ input.kind = "messages" /\ output.stage = "none"
    /\ k \in 1..Len(input.entries)
    /\ LET data == parseData(input.stdout).val
           messages == Get(Get(Get(data, "files"), "/a.php"), "messages")
       IN output' = [stage |-> "createDiagnostic", k |-> k,
                     r |-> createDiagnostic(input.text, messages.a[k])]
    /\ UNCHANGED <<server, input>>

\* check() for a run that wrote the report and ended with the given status
ApplyCheck(status) ==
    /\ input.kind = "messages" /\ output.stage = "none"
    /\ output' = [stage |-> "check", status |-> status,
                  r |-> IF returnsEmptyOnEmptyText(input.text)
                        THEN Settled(Returned(JList(<<>>)), "")
                        ELSE runCheck(build, "/a.php", input.text,
                                      Outcome(status, FALSE, input.stdout, ""))]
    /\ UNCHANGED <<server, input>>

MapNext ==
    \/ \E k \in 1..MaxMessages : ApplyCreateDiagnostic(k)
    \/ \E status \in {0, 1} : ApplyCheck(status)

MapSpec == MapInit /\ [][MapNext]_vars

\* --------------------------------------------------------------- claims
IsSettled(c) == cycles[c].pc \in {"done", "rejected"}
\* the settings of call c resolved with the checker enabled
IsEnabled(c) == cycles[c].resolved /\ cycles[c].settings.enable
Published(c) ==
    {i \in 1..Len(sent) : sent[i].m = "publishDiagnostics" /\ sent[i].cycle = c}
ThePublished(c) == sent[CHOOSE i \in Published(c) : TRUE].diagnostics
Ran(c) == cycles[c].spawned /\ cycles[c].outcome # 0

\* C1: every validateSingle call whose settings resolve with the checker
\* enabled has published nothing until it settles and exactly one diagnostic
\* set, for its document's URI, once it has; the step that settles it leaves
\* the URI out of the validating map
C1_EnabledPublishesOnce ==
    \A c \in 1..Len(cycles) :
        IsEnabled(c) =>
            /\ Cardinality(Published(c)) = IF IsSettled(c) THEN 1 ELSE 0
            /\ \A i \in Published(c) : sent[i].uri = cycles[c].uri
C1_SettlingUnmarks ==
    \A c \in 1..Len(cycles) :
        (~IsSettled(c) /\ IsSettled(c)' /\ IsEnabled(c)')
            => cycles[c].uri \notin validating'
C1_PublishesOnceAndUnmarks ==
    [][C1_EnabledPublishesOnce' /\ C1_SettlingUnmarks]_vars

C1_Witness ==
    \E c, d \in 1..Len(cycles) :
        /\ IsSettled(c) /\ IsEnabled(c) /\ Ran(c) /\ cycles[c].outcome = 3
        /\ IsSettled(d) /\ IsEnabled(d) /\ Ran(d) /\ cycles[d].outcome = 1

\* C2: every diagnostic set published is the full list the call computed or
\* the empty list
C2_PublishedFullOrEmpty ==
    \A i \in 1..Len(sent) :
        sent[i].m = "publishDiagnostics" =>
            LET d == sent[i].diagnostics
                res == cycles[sent[i].cycle].result
            IN \/ d = JList(<<>>)
               \/ /\ d.t = "list"
                  /\ res.ok /\ res.r.val = d

\* C3: when validateMany has ended, every document of the batch has had a
\* publish, whatever failed in the validation of an earlier one (a failed
\* settings lookup aside)
C3_BatchPublishesForEveryDocument ==
    \A b \in 1..Len(batches) :
        (/\ batches[b].st # "running"
         /\ \A c \in 1..Len(cycles) :
                (cycles[c].batch = b /\ IsSettled(c)) => cycles[c].resolved)
        => \A k \in 1..Len(batches[b].documents) :
               \E c \in 1..Len(cycles) :
                   /\ cycles[c].batch = b
                   /\ cycles[c].doc = batches[b].documents[k]
                   /\ Published(c) # {}

\* C4: when the process exits nonzero with no stdout, the call's catch block
\* sees an execution error, the stderr text is logged when there is any, and
\* [] is published
C4_NoOutputSurfacesExecutionError ==
    \A c \in 1..Len(cycles) :
        (/\ IsSettled(c) /\ Ran(c)
         /\ Outcomes[cycles[c].outcome].status > 0
         /\ Outcomes[cycles[c].outcome].stdout = NoStdout)
        => /\ cycles[c].surfaced
           /\ ThePublished(c) = JList(<<>>)
           /\ cycles[c].result.logged = Outcomes[cycles[c].outcome].stderr

\* C5: when the process is killed at the timeout, the call's catch block sees
\* the failure and [] is published, whatever the process had written
C5_TimeoutFailsAndPublishesEmpty ==
    \A c \in 1..Len(cycles) :
        (IsSettled(c) /\ Ran(c) /\ Outcomes[cycles[c].outcome].timedOut)
        => /\ cycles[c].surfaced
           /\ ThePublished(c) = JList(<<>>)

\* a run that ended with exit status 0 and the same output
WithExitStatusZero(o) == [o EXCEPT !.status = 0]
IsReport(stdout) == \E i \in 1..Len(Reports) : stdout = Reports[i]
ExitedNonzeroWithReport(c) ==
    /\ IsSettled(c) /\ Ran(c)
    /\ Outcomes[cycles[c].outcome].status > 0
    /\ IsReport(Outcomes[cycles[c].outcome].stdout)

\* C6: when the process exits nonzero having written a valid JSON report, what
\* is published is what a run with exit status 0 and the same stdout publishes
C6_NonzeroExitPublishesAsZeroExit ==
    \A c \in 1..Len(cycles) :
        ExitedNonzeroWithReport(c) =>
            LET zero == runCheck(build,
                                 realpathSync(uriToFilePath(cycles[c].uri)),
                                 Texts[cycles[c].text],
                                 WithExitStatusZero(Outcomes[cycles[c].outcome]))
            IN /\ zero.ok
               /\ ThePublished(c) = zero.r.val

\* C7: a call with the checker enabled on a document whose text is "" never
\* spawns the process and publishes []
C7_EmptyTextPublishesEmptyWithoutSpawn ==
    \A c \in 1..Len(cycles) :
        (IsSettled(c) /\ IsEnabled(c) /\ cycles[c].fileText = 1)
        => /\ ~cycles[c].spawned
           /\ ThePublished(c) = JList(<<>>)

C7_Witness ==
    \E c \in 1..Len(cycles) :
        /\ IsSettled(c) /\ IsEnabled(c) /\ cycles[c].fileText = 1
        /\ cycles[c].pc = "done"

\* C8: a call whose settings resolve with the checker disabled publishes []
\* once, never spawns the process, and the step that ends it leaves no entry
\* for the URI in the settings cache
IsDisabled(c) == cycles[c].resolved /\ ~cycles[c].settings.enable
C8_DisabledPublishesEmpty ==
    \A c \in 1..Len(cycles) :
        IsDisabled(c) =>
            /\ cycles[c].pc = "done" /\ ~cycles[c].spawned
            /\ Cardinality(Published(c)) = 1
            /\ ThePublished(c) = JList(<<>>)
            /\ \A i \in Published(c) : sent[i].uri = cycles[c].uri
C8_DisabledEvicts ==
    \A c \in 1..Len(cycles) :
        (~IsSettled(c) /\ IsDisabled(c)') => documentSettings'[cycles[c].uri] = 0
C8_DisabledPublishesEmptyAndEvicts ==
    [][C8_DisabledPublishesEmpty' /\ C8_DisabledEvicts]_vars

C8_Witness ==
    \E c \in 1..Len(cycles) :
        IsDisabled(c) /\ hasConfigurationCapability /\ cycles[c].sp # 0

Malformed == input.kind \in {"prefix", "bad", "dropped"}

\* C9: for every stdout text that is not well-formed JSON, parseData throws the
\* invalid-JSON error, and so does processResults: neither returns a report,
\* an empty one or a partly parsed one
C9_MalformedJsonThrows ==
    (Malformed /\ output.stage # "none")
        => output.r = Thrown("InvalidJsonStringError")

C9_Witness ==
    /\ input.kind = "prefix" /\ Len(input.stdout) = 17
    /\ output.stage = "processResults"

\* C10: for every well-formed JSON output that does not match the report
\* shape, processResults ends in an error, never in a diagnostic list
C10_ShapeMismatchIsError ==
    (input.kind = "mismatch" /\ output.stage = "processResults")
        => ~output.r.ok

\* ------------------------------------------------ validateMany and events
\* C11: within one validateMany call, the validateSingle call of a later
\* document exists (has looked its settings up) only when the call of every
\* earlier document has published, and everything it sends comes after that
\* publish
C11_BatchIsSequential ==
    \A c, d \in 1..Len(cycles) :
        (c < d /\ cycles[c].batch # 0 /\ cycles[c].batch = cycles[d].batch)
        => /\ Published(c) # {}
           /\ \A i \in 1..Len(sent) :
                  sent[i].cycle = d => \A j \in Published(c) : j < i

C11_Witness ==
    \E c, d \in 1..Len(cycles) :
        /\ c < d /\ cycles[c].batch # 0 /\ cycles[c].batch = cycles[d].batch
        /\ IsEnabled(c) /\ Ran(c)
        /\ IsEnabled(d) /\ Published(d) # {}

\* C12: after a configuration-changed event, every validateSingle call that
\* looks its settings up gets a request made after the event, never one cached
\* before it, and when the event's validateMany has ended a call was started
\* for every document that was open at the event
C12_ConfigurationChangeInvalidatesAndRevalidates ==
    \A b \in 1..Len(batches) :
        batches[b].trigger = "configuration" =>
            /\ hasConfigurationCapability =>
                   \A c \in 1..Len(cycles) :
                       c > batches[b].cyclesBefore
                           => cycles[c].sp > batches[b].promisesBefore
            /\ batches[b].st # "running" =>
                   \A k \in 1..Len(batches[b].documents) :
                       \E c \in 1..Len(cycles) :
                           /\ cycles[c].batch = b
                           /\ cycles[c].doc = batches[b].documents[k]

\* C13: every URI with an entry in the settings cache is an open document
C13_SettingsOnlyForOpenDocuments ==
    \A u \in URIs : documentSettings[u] # 0 => open[u] # 0

Started(c) ==
    \E i \in 1..Len(sent) : sent[i].m = "didStartValidate" /\ sent[i].cycle = c

\* C14: a URI is a key of the validating map exactly when some validateSingle
\* call for it has sent its start notification and has not yet published
C14_MarkedIffMidValidation ==
    \A u \in URIs :
        u \in validating
            <=> \E c \in 1..Len(cycles) :
                    cycles[c].uri = u /\ Started(c) /\ Published(c) = {}

\* ------------------------------------------------------------ the mapper
\* the lines of the text being mapped, and whether message k names one of them
LinesOf == split(input.text)
InRange(k) == input.entries[k].line <= Len(LinesOf)
Mapped == output.stage = "createDiagnostic"
TheEntry == input.entries[output.k]

\* C15: for a message with a text on a non-empty line of the document, the
\* start column i of its diagnostic is the line length, or the character at
\* i is not whitespace and every character before i is
C15_StartColumnIsFirstNonWhitespace ==
    (/\ Mapped /\ InRange(output.k) /\ TheEntry.message # ""
     /\ LinesOf[TheEntry.line] # <<>>)
    => /\ output.r.ok
       /\ LET lineString == LinesOf[TheEntry.line]
              i == output.r.val.range[2]
          IN \/ i = Len(lineString)
             \/ /\ i < Len(lineString)
                /\ ~isWhiteSpace(lineString[i + 1])
                /\ \A j \in 0..(i - 1) : isWhiteSpace(lineString[j + 1])

\* C16 as stated: every message with line = L, L a line of the document, is
\* mapped to a diagnostic whose range starts and ends on line L - 1
C16_EveryMessageKeepsItsLine ==
    (Mapped /\ InRange(output.k))
    => /\ output.r.ok
       /\ output.r.val.range[1] = TheEntry.line - 1
       /\ output.r.val.range[3] = TheEntry.line - 1

\* C16, amended: every message with a non-empty text and line = L, L a line
\* of the document, is mapped to a diagnostic whose range starts and ends on
\* line L - 1; a message with the empty text is mapped to the informational
\* diagnostic at the document origin
C16_MessageWithTextKeepsItsLine ==
    (Mapped /\ InRange(output.k))
    => /\ output.r.ok
       /\ IF TheEntry.message # ""
          THEN /\ output.r.val.range[1] = TheEntry.line - 1
               /\ output.r.val.range[3] = TheEntry.line - 1
          ELSE output.r.val =
                   Diagnostic(<<0, 0, 0, 0>>, JStr(""), DiagnosticSeverityInformation)

C16_Witness ==
    /\ Mapped /\ InRange(output.k)
    /\ TheEntry.message # "" /\ TheEntry.line = 2

\* the report has n messages with non-empty texts that name lines of the text
AllMappable ==
    \A k \in 1..Len(input.entries) :
        input.entries[k].message # "" /\ InRange(k)
Checked == output.stage = "check" /\ ~returnsEmptyOnEmptyText(input.text)

\* C17: for a report with n messages for the document's real path (texts not
\* empty, lines inside the document), check() yields exactly n diagnostics in
\* report order, the k-th with the k-th message text, severity Error and the
\* source tag; none for n = 0
C17_OneDiagnosticPerMessageInOrder ==
    (Checked /\ AllMappable)
    => /\ output.r.ok
       /\ output.r.r.val.t = "list"
       /\ Len(output.r.r.val.l) = Len(input.entries)
       /\ \A k \in 1..Len(input.entries) :
              LET d == output.r.r.val.l[k] IN
              /\ d.message = JStr(input.entries[k].message)
              /\ d.severity = DiagnosticSeverityError
              /\ d.source = "drupalchecker"
              /\ d.range[1] = input.entries[k].line - 1

C17_Witness ==
    /\ Checked /\ AllMappable
    /\ Len(input.entries) = 2
    /\ input.entries[1].message # input.entries[2].message

\* C18: when one message of the report names a line outside the document and
\* another names a line of it, check() yields a list that has the diagnostic
\* of the message in range
C18_OutOfRangeFailsOneMessageOnly ==
    (/\ Checked
     /\ \E k \in 1..Len(input.entries) : ~InRange(k)
     /\ \E k \in 1..Len(input.entries) : InRange(k) /\ input.entries[k].message # "")
    => /\ output.r.ok
       /\ output.r.r.val.t = "list"
       /\ \A k \in 1..Len(input.entries) :
              (InRange(k) /\ input.entries[k].message # "")
              => \E i \in 1..Len(output.r.r.val.l) :
                     /\ output.r.r.val.l[i].message = JStr(input.entries[k].message)
                     /\ output.r.r.val.l[i].range[1] = input.entries[k].line - 1

\* ------------------------------------------------------- failures of a call
\* the settings of call c resolved with the checker enabled and no executable
NullPathCycle(c) == IsEnabled(c) /\ cycles[c].settings.executablePath = NullPath

\* C19: a call whose settings have no executable path ends with the
\* create-checker error in its catch block, without a process spawned, with []
\* published for its URI, and the step that ends it leaves the URI out of the
\* validating map
C19_NullPathFailed ==
    \A c \in 1..Len(cycles) :
        (NullPathCycle(c) /\ IsSettled(c))
        => /\ cycles[c].pc = "rejected" /\ cycles[c].surfaced
           /\ ~cycles[c].spawned
           /\ ThePublished(c) = JList(<<>>)
C19_NullPathUnmarks ==
    \A c \in 1..Len(cycles) :
        (~IsSettled(c) /\ IsSettled(c)' /\ NullPathCycle(c)')
            => cycles[c].uri \notin validating'
C19_NullPathFailsCreationAndPublishesEmpty ==
    [][C19_NullPathFailed' /\ C19_NullPathUnmarks]_vars

\* the configuration request call c awaited has failed and c has resumed
LookupFailed(c) ==
    /\ cycles[c].sp # 0 /\ promises[cycles[c].sp].st = "rejected"
    /\ cycles[c].pc # "awaitSettings"

\* C20: a call whose settings lookup fails rejects without validating: it has
\* sent nothing (no start notification, no diagnostics), spawned no process,
\* and the step in which it resumes leaves the validating map as it was
C20_FailedLookupSendsNothing ==
    \A c \in 1..Len(cycles) :
        LookupFailed(c) =>
            /\ cycles[c].pc = "rejected" /\ ~cycles[c].resolved
            /\ ~cycles[c].spawned
            /\ \A i \in 1..Len(sent) : sent[i].cycle # c
C20_FailedLookupMarksNothing ==
    \A c \in 1..Len(cycles) :
        (cycles[c].pc = "awaitSettings" /\ LookupFailed(c)')
            => validating' = validating
C20_FailedLookupPropagatesWithoutValidating ==
    [][C20_FailedLookupSendsNothing' /\ C20_FailedLookupMarksNothing]_vars

C20_Witness ==
    \E c, d \in 1..Len(cycles) :
        /\ LookupFailed(c) /\ cycles[c].uri \in validating
        /\ LookupFailed(d) /\ cycles[d].batch # 0

\* ------------------------------------------------------------ frame effect
\* the step is an event on the document u or a step of a validateSingle call
\* for u
Concerns(u) ==
    \/ \E t \in 1..Len(Texts) : DidOpen(u, t)
    \/ \E t \in 1..Len(Texts) : DidChangeContent(u, t)
    \/ DidSave(u)
    \/ DidClose(u)
    \/ \E c \in 1..Len(cycles) :
           /\ cycles[c].uri = u
           /\ \/ ResumeSettings(c)
              \/ \E o \in 1..Len(Outcomes) : ResumeCreate(c, o)
              \/ \E o \in 1..Len(Outcomes) : ProcessExit(c, o)
              \/ ResumeCheck(c)

\* C21: an event on a document u, and every step of a validateSingle call for
\* u, leaves the settings-cache entry of every other URI and its presence in
\* the validating map as they were
C21_OtherUriUntouched ==
    [][\A u \in URIs :
           Concerns(u) =>
               \A v \in URIs \ {u} :
                   /\ documentSettings'[v] = documentSettings[v]
                   /\ (v \in validating') <=> (v \in validating)]_vars

C21_Witness ==
    \E c, d \in 1..Len(cycles) :
        /\ cycles[c].uri # cycles[d].uri
        /\ IsDisabled(c) /\ open[cycles[c].uri] = 0
        /\ Published(d) = {}
        /\ cycles[d].uri \in validating /\ documentSettings[cycles[d].uri] # 0
        /\ \E i \in 1..Len(sent) :
               /\ sent[i].m = "didStartValidate" /\ sent[i].cycle = d
               /\ \A k \in Published(c) : i < k

\* ------------------------------------------------ lifecycle notifications
Sent(m, c) == {i \in 1..Len(sent) : sent[i].m = m /\ sent[i].cycle = c}
\* how many of the first n messages are notifications m for the URI u
CountFor(m, u, n) == Cardinality({i \in 1..n : sent[i].m = m /\ sent[i].uri = u})

\* C22: a call sends at most one start and one end notification, both for
\* its own URI; the end comes after the start and before the call's publish,
\* and a settled call that sent a start has sent its end; in every prefix of
\* what was sent there are no more ends than starts for a URI; a call on the
\* disabled path sends neither
C22_NotificationsPairedAndOrdered ==
    /\ \A c \in 1..Len(cycles) :
           LET starts == Sent("didStartValidate", c)
               ends == Sent("didEndValidate", c)
           IN /\ Cardinality(starts) <= 1 /\ Cardinality(ends) <= 1
              /\ \A i \in starts \cup ends : sent[i].uri = cycles[c].uri
              /\ \A j \in ends : \E i \in starts : i < j
              /\ \A j \in ends : Published(c) # {} /\ \A k \in Published(c) : j < k
              /\ (IsSettled(c) /\ starts # {}) => ends # {}
              /\ IsDisabled(c) => starts = {} /\ ends = {}
    /\ \A u \in URIs : \A n \in 1..Len(sent) :
           CountFor("didEndValidate", u, n) <= CountFor("didStartValidate", u, n)

C22_Witness ==
    \E c, d \in 1..Len(cycles) :
        /\ c # d /\ cycles[c].uri = cycles[d].uri
        /\ IsSettled(c) /\ IsSettled(d)
        /\ \E i \in Sent("didStartValidate", d) :
               \E j \in Sent("didEndValidate", c) : i < j
        /\ \E i \in Sent("didStartValidate", c) :
               \E j \in Sent("didEndValidate", d) : i < j
        /\ \E e \in 1..Len(cycles) : IsDisabled(e)

\* ------------------------------------------------------- overlapping calls
\* the calls for the URI u that have published
PublishedFor(u) == {c \in 1..Len(cycles) : cycles[c].uri = u /\ Published(c) # {}}
\* the last publishDiagnostics sent for the URI u
LastPublishFor(u) ==
    CHOOSE i \in 1..Len(sent) :
        /\ sent[i].m = "publishDiagnostics" /\ sent[i].uri = u
        /\ \A j \in 1..Len(sent) :
               (sent[j].m = "publishDiagnostics" /\ sent[j].uri = u) => j <= i

\* C23: the validateSingle calls for one URI publish in the order they were
\* made, so when all of them have settled the diagnostics last published for
\* the URI are those of the call made last
C23_PublishInTriggerOrder ==
    /\ \A c, d \in 1..Len(cycles) :
           (c < d /\ cycles[c].uri = cycles[d].uri)
           => \A i \in Published(c), j \in Published(d) : i < j
    /\ \A u \in URIs :
           (/\ PublishedFor(u) # {}
            /\ \A c \in 1..Len(cycles) : cycles[c].uri = u => IsSettled(c))
           => \A c \in PublishedFor(u) : c <= sent[LastPublishFor(u)].cycle
====
